---- MODULE Spec2Model ----
(***************************************************************************)
(* Verification model of the particle-analysis core (kazuma2529/kenkyuu).  *)
(*                                                                         *)
(*  - the constraint-based radius selector                                 *)
(*      src/src/particle_analysis/volume/optimizer.py                      *)
(*  - the erosion-watershed splitter (both file-backed implementations)    *)
(*      src/src/particle_analysis/volume/core.py                           *)
(*      src/src/particle_analysis/volume_ops.py                            *)
(*  - the contact engine and its guard volume                              *)
(*      src/src/particle_analysis/contact/core.py                          *)
(*      src/src/particle_analysis/contact/guard_volume.py                  *)
(*  - the radius sweep, run directly or by the GUI worker thread           *)
(*      src/src/particle_analysis/volume/optimizer.py                      *)
(*      src/src/particle_analysis/gui/workers.py                           *)
(*                                                                         *)
(* Numbers: largest_particle_ratio and tau_ratio are integer percents,     *)
(* mean_contacts and particle_count are integers; a smoothed signal is the *)
(* exact rational [num, den].  Sequence positions are 1-based: position i  *)
(* is the pandas index label i-1.                                          *)
(***************************************************************************)
EXTENDS Integers, Sequences, FiniteSets, TLC

VARIABLES results_df, call, selection,      \* selector: input table, arguments, result
          volume, split_call, labels, num_particles,
                                            \* splitter: input, arguments, saved labels, return value
          contact_labels, contact_call, contact_result,
                                            \* contact engine: label volume, arguments, returned values
          margin_call, margin,             \* calculate_guard_margin: arguments, returned margin
          sweep_call, step, frame, summary,  \* sweep: arguments, position, locals, OptimizationSummary
          disk, log, is_cancelled,         \* files written, calls and signals so far, worker flag
          load_call, load_result,          \* slice loading: arguments, outcome
          legacy_call, legacy              \* volume_ops.optimize_radius: arguments, locals

selector_vars == <<results_df, call, selection>>
splitter_vars == <<volume, split_call, labels, num_particles>>
contact_vars == <<contact_labels, contact_call, contact_result>>
margin_vars == <<margin_call, margin>>
sweep_vars == <<sweep_call, step, frame, summary, disk, log, is_cancelled>>
loader_vars == <<load_call, load_result>>
legacy_vars == <<legacy_call, legacy>>
vars == <<results_df, call, selection, volume, split_call, labels, num_particles,
          contact_labels, contact_call, contact_result, margin_call, margin,
          sweep_call, step, frame, summary, disk, log, is_cancelled,
          load_call, load_result, legacy_call, legacy>>

\* ------------------------------------------------------------------ bounds
MaxRadius == 3
ShapeZ == 3
ShapeY == 3
ShapeX == 5
MaxErosionRadius == 2
MaxLabel == 3
MaxGuardMargin == 1
MaxSlices == 2

\* None, for r_star / r_peak / smoothing_window (radii and windows are >= 0)
None == -1

\* ---------------------------------------------------------- input domains
ParticleCounts == {10, 20}
LargestRatios == {2, 8}
MeanContacts == {4, 5}
TauRatios == {3, 5}
ContactsRanges == {<<5, 9>>, <<2, 4>>}
SmoothingWindows == {None, 1, 2}


Min(S) == CHOOSE x \in S : \A y \in S : x <= y
Max(S) == CHOOSE x \in S : \A y \in S : x >= y
Range(s) == {s[i] : i \in DOMAIN s}

Measures == [particle_count : ParticleCounts,
             largest_particle_ratio : LargestRatios, mean_contacts : MeanContacts]

Row(r, m) == [radius |-> r, particle_count |-> m.particle_count,
              largest_particle_ratio |-> m.largest_particle_ratio,
              mean_contacts |-> m.mean_contacts]

\* The table of a sweep over the radii S with the measures m[r]: complete rows
\* (no NaN, so dropna removes nothing), one row per radius, in the order of
\* the radii list (ascending or descending).
TableOf(S, m, descending) ==
    LET n == Cardinality(S)
        kth(k) == CHOOSE r \in S : Cardinality({q \in S : q < r}) = k - 1
    IN [k \in 1..n |-> IF descending THEN Row(kth(n + 1 - k), m[kth(n + 1 - k)])
                                     ELSE Row(kth(k), m[kth(k)])]

\* ================================================================ selector

\* results_df.copy().sort_values("radius").reset_index(drop=True)
sort_values(df) ==
    [k \in 1..Len(df) |->
        CHOOSE row \in Range(df) :
            Cardinality({q \in Range(df) : q.radius < row.radius}) = k - 1]

RECURSIVE SumRange(_, _, _)
SumRange(series, lo, hi) ==
    IF lo > hi THEN 0 ELSE series[lo] + SumRange(series, lo + 1, hi)

\* series.rolling(window=w, min_periods=1, center=True).mean(); the window of
\* position i is [i + offset - w + 1, i + offset] clipped to the series.
_ma(series, smoothing_window) ==
    IF smoothing_window = None \/ smoothing_window <= 1
    THEN [i \in DOMAIN series |-> [num |-> series[i], den |-> 1]]
    ELSE LET w == smoothing_window
             offset == (w - 1) \div 2
             last(i) == Min({i + offset, Len(series)})
             first(i) == Max({i + offset - w + 1, 1})
         IN [i \in DOMAIN series |->
                [num |-> SumRange(series, first(i), last(i)),
                 den |-> last(i) - first(i) + 1]]

\* lpr <= tau_ratio on an exact rational
LeTau(a, tau_ratio) == a.num <= tau_ratio * a.den

\* a < b on exact rationals
Less(a, b) == a.num * b.den < b.num * a.den

\* mask_pass.idxmax() on a boolean mask with a True entry: the first True
first_true_last(mask) == Max(mask)
first_true(mask) == Min(mask)

\* pc_valid.idxmax(): the first position holding the maximum
idxmax_last(series, idx) ==
    CHOOSE i \in idx :
        /\ \A j \in idx : ~Less(series[i], series[j])
        /\ \A j \in idx : (j > i) => Less(series[j], series[i])
idxmax(series, idx) ==
    CHOOSE i \in idx :
        /\ \A j \in idx : ~Less(series[i], series[j])
        /\ \A j \in idx : (j < i) => Less(series[j], series[i])

\* int(df.loc[idx, "radius"])
radius_at_index(df, idx) == idx - 1
radius_at(df, idx) == df[idx].radius

\* cmin <= mean_contacts <= cmax
InRange_strict(mc, contacts_range) ==
    contacts_range[1] < mc /\ mc <= contacts_range[2]
InRange(mc, contacts_range) ==
    contacts_range[1] <= mc /\ mc <= contacts_range[2]

\* (B): the rows of df[df["radius"] >= r_star] whose mean_contacts is in range
contacts_candidates_all(df, r_star, contacts_range) ==
    {i \in DOMAIN df : InRange(df[i].mean_contacts, contacts_range)}
contacts_candidates(df, r_star, contacts_range) ==
    {i \in DOMAIN df : df[i].radius >= r_star
                       /\ InRange(df[i].mean_contacts, contacts_range)}

Result(sel, rs, rp, why, thr, path) ==
    [selected_radius |-> sel, r_star |-> rs, r_peak |-> rp, reason |-> why,
     thresholds |-> thr, fallback_path_index |-> path]

NoThresholds == [tau_ratio |-> 0, contacts_range |-> <<0, 0>>]
NotCalled == Result(None, None, None, "not_called", NoThresholds, -1)

\* 3) Selection priority (A)..(E), given r*, R_peak and its position
selection_priority_star_first(df, r_star, idx_peak, r_peak, thresholds) ==
    LET contacts_range == thresholds.contacts_range
        after == IF r_star = None THEN {}
                 ELSE contacts_candidates(df, r_star, contacts_range)
    IN  IF r_peak # None /\ InRange(df[idx_peak].mean_contacts, contacts_range)
        THEN Result(r_peak, r_star, r_peak, "peak_and_contacts", thresholds, 0)
        ELSE IF after # {}
        THEN Result(radius_at(df, Min(after)), r_star, r_peak, "contacts_only", thresholds, 1)
        ELSE IF r_star # None
        THEN Result(r_star, r_star, r_peak, "r_star", thresholds, 3)
        ELSE IF r_peak # None
        THEN Result(r_peak, r_star, r_peak, "r_peak", thresholds, 2)
        ELSE IF Len(df) = 0
        THEN Result(None, r_star, r_peak, "ValueError", thresholds, -1)
        ELSE Result(Max({df[i].radius : i \in DOMAIN df}), r_star, r_peak,
                    "max_r", thresholds, 4)
selection_priority(df, r_star, idx_peak, r_peak, thresholds) ==
    LET contacts_range == thresholds.contacts_range
        after == IF r_star = None THEN {}
                 ELSE contacts_candidates(df, r_star, contacts_range)
    IN  IF r_peak # None /\ InRange(df[idx_peak].mean_contacts, contacts_range)
        THEN Result(r_peak, r_star, r_peak, "peak_and_contacts", thresholds, 0)
        ELSE IF after # {}
        THEN Result(radius_at(df, Min(after)), r_star, r_peak, "contacts_only", thresholds, 1)
        ELSE IF r_peak # None
        THEN Result(r_peak, r_star, r_peak, "r_peak", thresholds, 2)
        ELSE IF r_star # None
        THEN Result(r_star, r_star, r_peak, "r_star", thresholds, 3)
        ELSE IF Len(df) = 0
        THEN Result(None, r_star, r_peak, "ValueError", thresholds, -1)
        ELSE Result(Max({df[i].radius : i \in DOMAIN df}), r_star, r_peak,
                    "max_r", thresholds, 4)

\* The whole selector.  An empty table ends in ValueError("No results to select
\* from"), modelled as the result with reason "ValueError".
select_radius_by_constraints(df_in, tau_ratio, contacts_range, smoothing_window) ==
    LET df == sort_values(df_in)
        lpr == _ma([i \in DOMAIN df |-> df[i].largest_particle_ratio], smoothing_window)
        pc == _ma([i \in DOMAIN df |-> df[i].particle_count], smoothing_window)
        thresholds == [tau_ratio |-> tau_ratio, contacts_range |-> contacts_range]
        \* 1) r*: first r with lpr <= tau_ratio, else the minimum radius
        mask_pass == {i \in DOMAIN df : LeTau(lpr[i], tau_ratio)}
        r_star == IF mask_pass # {} THEN radius_at(df, first_true(mask_pass))
                  ELSE IF Len(df) > 0 THEN radius_at(df, 1) ELSE None
        \* 2) R_peak: max particle_count among {R >= r* AND lpr <= tau_ratio}
        valid == IF r_star = None THEN {}
                 ELSE {i \in DOMAIN df : df[i].radius >= r_star /\ LeTau(lpr[i], tau_ratio)}
        idx_peak == IF valid # {} THEN idxmax(pc, valid) ELSE None
        r_peak == IF valid # {} THEN radius_at(df, idx_peak) ELSE None
    IN selection_priority(df, r_star, idx_peak, r_peak, thresholds)

\* ================================================================ splitter

Voxels == (0..ShapeZ - 1) \X (0..ShapeY - 1) \X (0..ShapeX - 1)

\* position of a voxel in C (raster) order
Ravel(v) == (v[1] * ShapeY + v[2]) * ShapeX + v[3]

Shift(v, d) == <<v[1] + d[1], v[2] + d[2], v[3] + d[3]>>

\* Cross-sections (z, y) a slice x of an input volume is drawn from.
SliceNames == {"empty", "center", "plus", "corner"}
SliceVoxels(name) ==
    CASE name = "empty" -> {}
      [] name = "center" -> {<<1, 1>>}
      [] name = "plus" -> {<<1, 1>>, <<0, 1>>, <<2, 1>>, <<1, 0>>, <<1, 2>>}
      [] name = "corner" -> {<<0, 0>>}

\* np.load(vol_path).astype(bool): the boolean volume as a voxel -> BOOLEAN map
VolumeOf(slices) ==
    [v \in Voxels |-> <<v[1], v[2]>> \in SliceVoxels(slices[v[3] + 1])]

Foreground(vol) == {v \in Voxels : vol[v]}

\* skimage.morphology.ball(radius): offsets with squared norm <= radius^2
ball(radius) ==
    {d \in (-radius..radius) \X (-radius..radius) \X (-radius..radius) :
        d[1] * d[1] + d[2] * d[2] + d[3] * d[3] <= radius * radius}

\* ndimage.binary_erosion(volume, structure): border_value = 0, so a voxel whose
\* structuring element leaves the array is eroded away
binary_erosion(vol, structure) ==
    [v \in Voxels |-> \A d \in structure : Shift(v, d) \in Voxels /\ vol[Shift(v, d)]]

\* np.ones((3, 3, 3)) and generate_binary_structure(3, c) with c >= 3
FullStructure == {d \in (-1..1) \X (-1..1) \X (-1..1) : d # <<0, 0, 0>>}

\* generate_binary_structure(3, connectivity): offsets whose city-block norm
\* is <= connectivity (connectivity < 1 counts as 1)
generate_binary_structure(connectivity) ==
    LET c == IF connectivity < 1 THEN 1 ELSE connectivity
        Abs(n) == IF n < 0 THEN -n ELSE n
    IN {d \in FullStructure : Abs(d[1]) + Abs(d[2]) + Abs(d[3]) <= c}

RECURSIVE Grow(_, _, _)
Grow(S, structure, reached) ==
    LET more == {v \in S \ reached : \E d \in structure : Shift(v, d) \in reached}
    IN IF more = {} THEN reached ELSE Grow(S, structure, reached \cup more)

\* connected component of voxel v inside the voxel set S
Component(S, structure, v) == Grow(S, structure, {v})

\* ndimage.label(input, structure): components numbered 1..n in the raster
\* order of their first voxel; returns <<labels, n>>
label(input, structure) ==
    LET S == Foreground(input)
        first == [v \in S |-> Min({Ravel(u) : u \in Component(S, structure, v)})]
        firsts == {first[v] : v \in S}
    IN <<[v \in Voxels |->
            IF input[v] THEN Cardinality({f \in firsts : f <= first[v]}) ELSE 0],
         Cardinality(firsts)>>

\* ndimage.distance_transform_edt(volume): distance of a foreground voxel to
\* the nearest background voxel of the array, kept as the exact squared
\* distance (the flood only compares distances)
distance_transform_edt(vol) ==
    LET background == Voxels \ Foreground(vol)
    IN [v \in Voxels |->
          IF vol[v]
          THEN Min({(v[1] - u[1]) * (v[1] - u[1]) + (v[2] - u[2]) * (v[2] - u[2])
                    + (v[3] - u[3]) * (v[3] - u[3]) : u \in background})
          ELSE 0]

\* neighbours of the default watershed connectivity (1), in raster order
WatershedNeighbors ==
    <<(<<-1, 0, 0>>), (<<0, -1, 0>>), (<<0, 0, -1>>),
      (<<0, 0, 1>>), (<<0, 1, 0>>), (<<1, 0, 0>>)>>

\* heap order of the flood: value, then age (markers, all of age 0, by position)
HeapTop(heap) ==
    CHOOSE e \in heap : \A f \in heap :
        \/ e.value < f.value
        \/ e.value = f.value /\ e.age < f.age
        \/ e.value = f.value /\ e.age = f.age /\ Ravel(e.index) <= Ravel(f.index)

\* the neighbour loop of one popped element: an unlabelled neighbour inside the
\* mask takes the label of the element when it is pushed
RECURSIVE Visit(_, _, _, _, _, _, _)
Visit(elem, i, image, mask, output, heap, age) ==
    IF i > Len(WatershedNeighbors) THEN [output |-> output, heap |-> heap, age |-> age]
    ELSE LET n == Shift(elem.index, WatershedNeighbors[i])
         IN IF n \notin Voxels \/ ~mask[n] \/ output[n] # 0
            THEN Visit(elem, i + 1, image, mask, output, heap, age)
            ELSE Visit(elem, i + 1, image, mask,
                       [output EXCEPT ![n] = output[elem.index]],
                       heap \cup {[value |-> image[n], age |-> age + 1, index |-> n]},
                       age + 1)

RECURSIVE Flood(_, _, _, _, _)
Flood(image, mask, output, heap, age) ==
    IF heap = {} THEN output
    ELSE LET elem == HeapTop(heap)
             st == Visit(elem, 1, image, mask, output, heap \ {elem}, age)
         IN Flood(image, mask, st.output, st.heap, st.age)

\* skimage.segmentation.watershed(image, markers, mask=mask): priority flood
\* from the markers through the mask; a masked voxel no flood reaches stays 0
watershed(image, markers, mask) ==
    LET seeds == [v \in Voxels |-> IF mask[v] THEN markers[v] ELSE 0]
        heap == {[value |-> image[v], age |-> 0, index |-> v] :
                    v \in {u \in Voxels : seeds[u] # 0}}
    IN Flood(image, mask, seeds, heap, 1)

LabelMax(lab) == Max({lab[v] : v \in Voxels})

\* the cast of stack_masks (astype(np.uint8) * 255) applied to the fallback
astype_uint8_255(vol) == [v \in Voxels |-> IF vol[v] THEN 255 ELSE 0]

\* volume.astype(np.int32)
astype_int32(vol) == [v \in Voxels |-> IF vol[v] THEN 1 ELSE 0]

\* volume/core.py split_particles: <<saved labels, returned count>>
core_split_particles(vol, radius) ==
    LET eroded == binary_erosion(vol, ball(radius))
        seeds == label(eroded, FullStructure)
        seed_labels == seeds[1]
        n_seeds == seeds[2]
    IN IF n_seeds = 0
       THEN <<astype_int32(vol), IF Foreground(vol) # {} THEN 1 ELSE 0>>
       ELSE LET distance == distance_transform_edt(vol)
                lab == watershed([v \in Voxels |-> -distance[v]], seed_labels, vol)
            IN <<lab, LabelMax(lab)>>

\* volume_ops.py split_particles: <<saved labels, returned count>>
volume_ops_split_particles(vol, radius, connectivity) ==
    LET eroded == binary_erosion(vol, ball(radius))
        seeds == label(eroded, generate_binary_structure(connectivity))
        eroded_labels == seeds[1]
        num_eroded == seeds[2]
    IN IF num_eroded = 0
       THEN <<[v \in Voxels |-> 0], 0>>
       ELSE LET distance == distance_transform_edt(vol)
                lab == watershed([v \in Voxels |-> -distance[v]], eroded_labels, vol)
                unique_labels == {lab[v] : v \in Voxels} \ {0}
                final_labels == [v \in Voxels |->
                    IF lab[v] = 0 THEN 0
                    ELSE Cardinality({u \in unique_labels : u <= lab[v]})]
            IN <<final_labels, Cardinality(unique_labels)>>

NoSplit == [impl |-> "none", radius |-> 0]
NoLabels == [v \in Voxels |-> 0]

\* volume/core.py label_volume: <<saved labels, returned count>>, or the
\* ValueError of an unsupported connectivity
core_label_volume(vol, connectivity) ==
    IF connectivity = 6 THEN label(vol, generate_binary_structure(1))
    ELSE IF connectivity = 26 THEN label(vol, generate_binary_structure(3))
    ELSE <<NoLabels, None>>

\* volume_ops.py label_volume: <<saved labels, returned count>>
volume_ops_label_volume(vol, connectivity) ==
    label(vol, generate_binary_structure(connectivity))

\* ------------------------------------------------------------ contact engine
Abs(x) == IF x < 0 THEN -x ELSE x

Shape == <<ShapeZ, ShapeY, ShapeX>>

\* Voxels an input label volume may label: two face neighbours inside the
\* volume and two voxels of the z = 0 face, <<0, 1, 2>> a face neighbour of
\* <<1, 1, 2>> and <<0, 0, 1>> a corner neighbour of it.
ContactSites == {<<1, 1, 1>>, <<1, 1, 2>>, <<0, 1, 2>>, <<0, 0, 1>>}

LabelVolumeOf(a) == [v \in Voxels |-> IF v \in ContactSites THEN a[v] ELSE 0]

\* contact/core.py count_contacts: the offsets (dz, dy, dx) of a connectivity;
\* every value other than 6 and 18 takes the 26-neighbourhood
offsets(connectivity) ==
    LET cube == (-1..1) \X (-1..1) \X (-1..1)
    IN IF connectivity = 6
       THEN {d \in cube : Abs(d[1]) + Abs(d[2]) + Abs(d[3]) = 1}
       ELSE IF connectivity = 18
       THEN {d \in cube : Abs(d[1]) + Abs(d[2]) + Abs(d[3]) <= 2 /\ d # <<0, 0, 0>>}
       ELSE cube \ {<<0, 0, 0>>}

\* the voxels of labels[z_start:z_end, y_start:y_end, x_start:x_end]
current_slice(d) ==
    {v \in Voxels : \A i \in 1..3 :
        /\ v[i] >= Max({0, -d[i]})
        /\ v[i] < Min({Shape[i], Shape[i] - d[i]})}

\* a contact mask that forgets current_slice != neighbor_slice
contact_mask_any(current, neighbor) == current > 0 /\ neighbor > 0

\* (current_slice > 0) & (neighbor_slice > 0) & (current_slice != neighbor_slice)
contact_mask(current, neighbor) == current > 0 /\ neighbor > 0 /\ current # neighbor

\* the pairs zip(current_contacts, neighbor_contacts) over all offsets
contact_events(lab, connectivity) ==
    {<<lab[p[1]], lab[Shift(p[1], p[2])]>> :
        p \in {q \in Voxels \X offsets(connectivity) :
                  /\ q[1] \in current_slice(q[2])
                  /\ contact_mask(lab[q[1]], lab[Shift(q[1], q[2])])}}

\* each pair recorded once, on the side of the smaller id
add_contacts_once(events, pid) == {e[2] : e \in {f \in events : f[1] = pid /\ f[1] < f[2]}}

\* contacts[curr].add(neigh); contacts[neigh].add(curr): the set of pid
add_contacts(events, pid) ==
    {e[2] : e \in {f \in events : f[1] = pid}} \cup {e[1] : e \in {f \in events : f[2] = pid}}

\* the dict contacts of count_contacts: one set per id in 1..max_label
contact_sets(lab, connectivity) ==
    LET events == contact_events(lab, connectivity)
        max_label == LabelMax(lab)
    IN [pid \in 1..max_label |-> add_contacts(events, pid)]

\* {pid: len(contact_set) for pid, contact_set in contacts.items()}
contact_counts(contacts) == [pid \in DOMAIN contacts |-> Cardinality(contacts[pid])]

\* contact/core.py count_contacts: particle id -> number of distinct neighbours
count_contacts(lab, connectivity) == contact_counts(contact_sets(lab, connectivity))

\* np.unique(labels)[unique_labels > 0]
unique_labels(lab) == {lab[v] : v \in Voxels} \ {0}

\* voxel count of the particle of largest equivalent radius (r_eq grows with V)
max_particle_volume(lab) ==
    IF unique_labels(lab) = {} THEN 0
    ELSE Max({Cardinality({v \in Voxels : lab[v] = i}) : i \in unique_labels(lab)})

\* default of min_margin
DefaultMinMargin == 10

\* int(np.ceil(max_radius * 0.3)) with max_radius = (3V / 4 pi)^(1/3): the least
\* k with k^3 >= 0.027 * 3V / (4 pi), pi taken as 355/113 (exact for V <= 200000)
calculated_margin(max_volume) ==
    CHOOSE k \in 0..11 :
        /\ k * k * k * 1420000 >= 9153 * max_volume
        /\ \A j \in 0..(k - 1) : j * j * j * 1420000 < 9153 * max_volume

\* min(int(Z * 0.06), int(H * 0.06), int(W * 0.06))
max_allowed_margin(shape) == Min({(shape[i] * 6) \div 100 : i \in 1..3})

\* contact/guard_volume.py calculate_guard_margin; labels enter through their
\* shape and the voxel count of the largest particle
calculate_guard_margin(shape, max_volume, min_margin) ==
    LET calculated == calculated_margin(max_volume)
        requested == Max({calculated, min_margin})
        allowed == max_allowed_margin(shape)
        limited == IF requested > allowed THEN allowed ELSE requested
    IN Max({Min({limited, allowed}), min_margin})

\* contact/guard_volume.py create_guard_volume_mask
create_guard_volume_mask(shape, m) ==
    [v \in Voxels |-> \A i \in 1..3 : v[i] >= m /\ v[i] < shape[i] - m]

\* a particle taken as interior as soon as one of its voxels is
filter_interior_particles_any(lab, guard_mask) ==
    {i \in unique_labels(lab) : \E v \in Voxels : lab[v] = i /\ guard_mask[v]}

\* contact/guard_volume.py filter_interior_particles
filter_interior_particles(lab, guard_mask) ==
    {i \in unique_labels(lab) : \A v \in Voxels : lab[v] = i => guard_mask[v]}

\* guard_mask=None
NoMask == <<>>

NoStats == [total_particles |-> 0, interior_particles |-> 0, excluded_particles |-> 0]

\* contact/guard_volume.py count_contacts_with_guard (interior_particles=None).
\* The closing log message divides by stats['total_particles'].
count_contacts_with_guard(lab, connectivity, guard_mask) ==
    LET full_contacts == count_contacts(lab, connectivity)
        mask == IF guard_mask = NoMask
                THEN create_guard_volume_mask(Shape,
                        calculate_guard_margin(Shape, max_particle_volume(lab), DefaultMinMargin))
                ELSE guard_mask
        interior_particles == filter_interior_particles(lab, mask)
        interior_contacts == [pid \in DOMAIN full_contacts \cap interior_particles |->
                                 full_contacts[pid]]
        total == Cardinality(DOMAIN full_contacts)
        interior == Cardinality(DOMAIN interior_contacts)
        stats == [total_particles |-> total, interior_particles |-> interior,
                  excluded_particles |-> total - interior]
    IN IF total = 0
       THEN [contacts |-> <<>>, full_contacts |-> <<>>, interior_contacts |-> <<>>,
             stats |-> NoStats, error |-> "ZeroDivisionError"]
       ELSE [contacts |-> <<>>, full_contacts |-> full_contacts,
             interior_contacts |-> interior_contacts, stats |-> stats, error |-> "none"]

NoContactCall == [fn |-> "none", connectivity |-> 0, guard_mask |-> NoMask]
NoContactResult == [contacts |-> <<>>, full_contacts |-> <<>>, interior_contacts |-> <<>>,
                    stats |-> NoStats, error |-> "none"]
NoMarginCall == [shape |-> <<0, 0, 0>>, max_volume |-> 0, min_margin |-> 0, done |-> FALSE]

\* input domains of calculate_guard_margin
Dimensions == {20, 40, 100, 200, 400}
MinMargins == {0, 5, 10, 20}
LargestVolumes == {0, 500, 36000, 200000}


\* ------------------------------------------------------------- radius sweep
\* Input volumes of a sweep, named by what splitting them gives.
SweepVolumes == {"empty", "plateau", "peak"}

LabelSummary(n, largest, total, interior, mean) ==
    [num_particles |-> n, largest_volume |-> largest, total_volume |-> total,
     interior |-> interior, interior_mean |-> mean]

\* split_particles_in_memory(volume, radius, connectivity): the label volume,
\* kept as what the sweep reads from it (largest id, voxel counts, interior
\* particles and the mean of their contact counts)
split_particles_in_memory(vol, r) ==
    CASE vol = "empty" -> LabelSummary(0, 0, 0, 0, 0)
      [] vol = "plateau" -> LabelSummary(10, 8, 100, 0, 0)
      [] vol = "peak" -> IF r = 1 THEN LabelSummary(10, 8, 100, 4, 4)
                         ELSE IF r = 2 THEN LabelSummary(20, 2, 100, 6, 5)
                         ELSE LabelSummary(10, 2, 100, 0, 0)

\* volume/metrics/basic.py calculate_largest_particle_ratio:
\* <<ratio (percent), largest_volume, total_volume>>
calculate_largest_particle_ratio(lab) ==
    IF lab.total_volume = 0 THEN <<0, 0, 0>>
    ELSE <<(lab.largest_volume * 100) \div lab.total_volume,
           lab.largest_volume, lab.total_volume>>

\* count_contacts_with_guard on the label volume of a sweep iteration:
\* interior_contacts as its length and the mean of its values, and guard_stats
guard_contacts(lab) ==
    [interior_contacts |-> [len |-> lab.interior, mean |-> lab.interior_mean],
     guard_stats |-> [total_particles |-> lab.num_particles,
                      interior_particles |-> lab.interior,
                      excluded_particles |-> lab.num_particles - lab.interior]]

\* optimizer.py:78-150: the OptimizationResult of one radius; contacts_failed
\* is an exception raised inside count_contacts_with_guard
OptimizationResult(vol, r, complete_analysis, contacts_failed) ==
    LET lab == split_particles_in_memory(vol, r)
        n == lab.num_particles
        ratio == calculate_largest_particle_ratio(lab)
        guard == guard_contacts(lab)
        counted == /\ complete_analysis
                   /\ n > 0
                   /\ ~contacts_failed
                   /\ guard.interior_contacts.len > 0
    IN [radius |-> r, particle_count |-> n,
        mean_contacts |-> IF counted THEN guard.interior_contacts.mean ELSE 0,
        largest_particle_ratio |-> ratio[1], labels_path |-> "",
        total_volume |-> ratio[3], largest_particle_volume |-> ratio[2],
        interior_particle_count |->
            IF counted THEN guard.guard_stats.interior_particles ELSE 0,
        excluded_particle_count |->
            IF counted THEN guard.guard_stats.excluded_particles ELSE 0]

\* a summary that keeps the newest result first
add_result_front(results, result) == <<result>> \o results

\* OptimizationSummary.add_result
add_result(results, result) == Append(results, result)

\* the plateau test made whether or not early stopping was asked for
plateau_reached_always(early_stopping, prev_count, n) ==
    /\ prev_count # None
    /\ prev_count > 0
    /\ Abs(n - prev_count) * 100 < prev_count

\* optimizer.py:168-172: the early-stopping test, plateau_threshold = 0.01
plateau_reached(early_stopping, prev_count, n) ==
    /\ early_stopping
    /\ prev_count # None
    /\ prev_count > 0
    /\ Abs(n - prev_count) * 100 < prev_count

\* _summary_to_dataframe, the columns the selector reads
_summary_to_dataframe(results) ==
    [k \in DOMAIN results |->
        [radius |-> results[k].radius, particle_count |-> results[k].particle_count,
         largest_particle_ratio |-> results[k].largest_particle_ratio,
         mean_contacts |-> results[k].mean_contacts]]

\* defaults of optimize_radius_advanced
DefaultTauRatio == 3
DefaultContactsRange == <<5, 9>>

\* determine_best_radius_pareto_distance on a summary without results
NoResultsRadius == 0

\* labels of the last swept radius saved in place of the selected one
sel_r_last(best_radius, results) ==
    IF results = <<>> THEN best_radius ELSE results[Len(results)].radius

\* sel_r = int(summary.best_radius)
sel_r(best_radius, results) == best_radius

\* the percentage taken over the whole bar, nothing kept for the final stage
progress_pct_full(radii, radius) ==
    LET current_index == IF \E k \in DOMAIN radii : radii[k] = radius
                         THEN Min({k \in DOMAIN radii : radii[k] = radius}) - 1
                         ELSE 0
        total_steps == IF Len(radii) > 0 THEN Len(radii) ELSE 1
    IN ((current_index + 1) * 100) \div total_steps

\* int((current_index + 1) / total_steps * 90), current_index the first
\* position of the radius in self.radii (0-based)
progress_pct(radii, radius) ==
    LET current_index == IF \E k \in DOMAIN radii : radii[k] = radius
                         THEN Min({k \in DOMAIN radii : radii[k] = radius}) - 1
                         ELSE 0
        total_steps == IF Len(radii) > 0 THEN Len(radii) ELSE 1
    IN ((current_index + 1) * 90) \div total_steps

Event(ev, arg) == [ev |-> ev, stage |-> "", arg |-> arg]
\* every stage announced under the name of the sweep stage
StageChanged_optimization(stage) == [ev |-> "stage_changed", stage |-> "optimization", arg |-> 0]

StageChanged(stage) == [ev |-> "stage_changed", stage |-> stage, arg |-> 0]

File(name, radius) == [file |-> name, radius |-> radius]

NoSweepCall == [volume |-> "empty", radii |-> <<>>, progress_callback |-> "none",
                complete_analysis |-> FALSE, early_stopping |-> FALSE]
NoResult == [radius |-> 0]
NoFrame == [i |-> 1, prev_count |-> None, result |-> NoResult]
NoSummary == [results |-> <<>>, best_radius |-> 0, optimization_method |-> ""]

\* radii lists: the strictly ascending lists over 1..MaxRadius
RadiiLists ==
    {[k \in 1..Cardinality(S) |->
         CHOOSE r \in S : Cardinality({q \in S : q < r}) = k - 1] :
     S \in SUBSET (1..MaxRadius)}


\* ------------------------------------------------- slice loading, binarizer
\* An image file of the folder: one pixel row of w pixels; cv2.imread returns
\* None for a file it cannot read.
Image(px) == [w |-> Len(px), px |-> px]
Unreadable == [w |-> 0, px |-> <<>>]

\* Files a folder may hold.  The intensities 0, 1, 5, 6 keep the between-class
\* variances of threshold_otsu free of rounding ties for up to nine voxels.
SliceFiles == {Image(<<0, 0, 0>>), Image(<<1, 5, 6>>), Image(<<6, 6, 6>>),
               Image(<<6>>), Image(<<5, 6>>), Unreadable}

Folders == UNION {[1..n -> SliceFiles] : n \in 0..MaxSlices}

\* numpy's `volume[i] = img`: a row of the slice width, or of one pixel, which
\* numpy broadcasts; any other width raises ValueError
Broadcastable(img, width) == img.w = width \/ img.w = 1

assign_slice(img, width) ==
    [p \in 1..width |-> IF img.w = 1 THEN img.px[1] ELSE img.px[p]]

NoVolume == <<>>

\* processing.py steps 1-3
load_volume(files) ==
    IF files = <<>> \/ files[1] = Unreadable
    THEN [error |-> "ValueError", volume |-> NoVolume]
    ELSE LET width == files[1].w
         IN IF \E i \in DOMAIN files :
                  files[i] # Unreadable /\ ~Broadcastable(files[i], width)
            THEN [error |-> "ValueError", volume |-> NoVolume]
            ELSE [error |-> "none",
                  volume |-> [i \in DOMAIN files |->
                                 IF files[i] = Unreadable
                                 THEN [p \in 1..width |-> 0]
                                 ELSE assign_slice(files[i], width)]]

Pixels(vol) == (DOMAIN vol) \X (DOMAIN vol[1])
At(vol, v) == vol[v[1]][v[2]]

roi_active(roi_mode) == roi_mode \notin {"none", "off", "false", "0"}

\* cv2.morphologyEx(MORPH_CLOSE, 5x5) on one pixel row: a dilation and an
\* erosion by two columns to each side, the border never constraining
morph_close(m, width) ==
    LET dilated == {p \in 1..width : \E q \in m : Abs(p - q) <= 2}
    IN {p \in 1..width : \A q \in 1..width : Abs(p - q) <= 2 => q \in dilated}

\* ndimage.label of one pixel row and `lbl == counts.argmax()`: the leftmost
\* of the longest runs (binary_fill_holes changes nothing in a single row,
\* whose pixels all touch the border)
RunsOf(m) ==
    {r \in {a..b : a \in m, b \in m} :
        r # {} /\ (Min(r) - 1) \notin m /\ (Max(r) + 1) \notin m /\ r \subseteq m}

largest_component(m) ==
    IF m = {} THEN {}
    ELSE CHOOSE r \in RunsOf(m) :
            \A s \in RunsOf(m) :
                \/ Cardinality(s) < Cardinality(r)
                \/ Cardinality(s) = Cardinality(r) /\ Min(r) <= Min(s)

\* processing.py:99-111
refined_roi(vol) ==
    {v \in Pixels(vol) :
        v[2] \in largest_component(
                    morph_close({q \in DOMAIN vol[v[1]] : vol[v[1]][q] > 0},
                                Len(vol[v[1]])))}

\* skimage.filters.threshold_otsu of the values at the voxels D (D not empty):
\* the first integer bin that maximises the between-class variance
\* w1 * w2 * (mean1 - mean2)^2, compared as fractions; a constant image gives
\* its value
threshold_otsu(vol, D) ==
    LET vals == {At(vol, v) : v \in D}
        lo == Min(vals)
        hi == Max(vals)
        weighted == [c \in lo..hi |-> c * Cardinality({v \in D : At(vol, v) = c})]
        w1(b) == Cardinality({v \in D : At(vol, v) <= b})
        w2(b) == Cardinality({v \in D : At(vol, v) > b})
        num(b) == (SumRange(weighted, lo, b) * w2(b)
                      - SumRange(weighted, b + 1, hi) * w1(b))
        sq(b) == num(b) * num(b)
        den(b) == w1(b) * w2(b)
    IN IF lo = hi THEN lo
       ELSE CHOOSE b \in lo..(hi - 1) :
               \A c \in lo..(hi - 1) :
                   \/ sq(c) * den(b) < sq(b) * den(c)
                   \/ sq(c) * den(b) = sq(b) * den(c) /\ b <= c

\* `values[values > 0]` when some value is positive, else the values as they are
positive_if_any(vol, D) ==
    IF \E v \in D : At(vol, v) > 0 THEN {v \in D : At(vol, v) > 0} ELSE D

\* processing.py:117-151, the pair <<threshold1, threshold2>>
two_stage_otsu(vol, roi_mask, thresholding_mode) ==
    LET values == IF thresholding_mode = "otsu3d_roi" /\ roi_mask # {}
                  THEN roi_mask ELSE Pixels(vol)
        threshold1 == threshold_otsu(vol, positive_if_any(vol, values))
        foreground_voxels == {v \in values : At(vol, v) > threshold1}
    IN IF foreground_voxels = {}
       THEN <<threshold1, threshold1>>
       ELSE <<threshold1,
              threshold_otsu(vol, positive_if_any(vol, foreground_voxels))>>

\* processing.py:153-193: per slice, the pixels of the ROI on the requested
\* side of the Sauvola surface.  `above` is the set of voxels whose normalised
\* value exceeds the surface skimage computes, left open here.
sauvola_binary(vol, roi_mask, polarity, above) ==
    LET roi == IF roi_mask = {} THEN {v \in Pixels(vol) : At(vol, v) > 0}
               ELSE roi_mask
    IN IF polarity = "dark" THEN roi \ above ELSE roi \cap above

\* processing.py:216-217, the counts the auto polarity compares
count_mask(vol, roi_mask) == IF roi_mask # {} THEN roi_mask ELSE Pixels(vol)
count_below(vol, roi_mask, t2) ==
    Cardinality({v \in count_mask(vol, roi_mask) : At(vol, v) <= t2})
count_above(vol, roi_mask, t2) ==
    Cardinality({v \in count_mask(vol, roi_mask) : At(vol, v) > t2})

\* processing.py:223-246 with no Sauvola result: the foreground and the
\* polarity that is reported
auto_is_dark(below, above) == below < above

polarity_selection(vol, roi_mask, roi_on, polarity, t2) ==
    LET dark == \/ polarity = "dark"
                \/ /\ polarity = "auto"
                   /\ auto_is_dark(count_below(vol, roi_mask, t2),
                                   count_above(vol, roi_mask, t2))
        side == IF dark THEN {v \in Pixels(vol) : At(vol, v) <= t2}
                ELSE {v \in Pixels(vol) : At(vol, v) > t2}
    IN [binary |-> IF roi_on THEN side \cap roi_mask ELSE side,
        polarity |-> IF polarity = "auto"
                     THEN (IF dark THEN "auto inverted" ELSE "auto normal")
                     ELSE (IF dark THEN "forced dark" ELSE "forced bright")]

NoLoadCall == [fn |-> "none"]
NoLoadResult == [status |-> "none"]
Raised(error) == [status |-> error]
Returned(binary, polarity, t2) ==
    [status |-> "returned", binary |-> binary, polarity |-> polarity,
     threshold |-> t2]

\* load_and_binarize_3d_volume with closing_radius = 0 and min_object_size = 0
\* (no post-processing)
load_and_binarize_3d_volume(files, polarity, thresholding, roi_mode, above) ==
    LET loaded == load_volume(files)
        vol == loaded.volume
        roi_on == roi_active(roi_mode)
        roi_mask == IF roi_on THEN refined_roi(vol) ELSE {}
        sauvola == thresholding = "sauvola2d_roi"
        t == IF sauvola THEN <<0, 0>> ELSE two_stage_otsu(vol, roi_mask, thresholding)
        selected == polarity_selection(vol, roi_mask, roi_on, polarity, t[2])
    IN IF loaded.error # "none" THEN Raised(loaded.error)
       ELSE IF polarity \notin {"auto", "bright", "dark"} THEN Raised("ValueError")
       ELSE IF sauvola
       THEN Returned(sauvola_binary(vol, roi_mask, polarity, above),
                     IF polarity = "dark" THEN "forced dark" ELSE "forced bright",
                     0)
       ELSE Returned(selected.binary, selected.polarity, t[2])

\* volume/core.py stack_masks: the volume saved, or nothing
stack_masks(files, invert) ==
    IF files = <<>> \/ files[1] = Unreadable THEN [status |-> "not_saved"]
    ELSE IF \E i \in DOMAIN files :
               files[i] = Unreadable \/ files[i].w # files[1].w
    THEN [status |-> "not_saved"]
    ELSE [status |-> "saved",
          binary |-> {v \in (DOMAIN files) \X (1..files[1].w) :
                         (files[v[1]].px[v[2]] > 0) # invert}]

Polarities == {"auto", "bright", "dark", "both"}
Thresholdings == {"otsu3d", "otsu3d_roi", "sauvola2d_roi"}
RoiModes == {"none", "per_slice"}


\* --------------------------------------------- volume_ops.optimize_radius
\* Input volumes, named by the particle count split_particles returns for them
\* at each radius.
LegacyVolumes == {"empty", "falling", "edge", "steep"}

\* volume_ops.py:234-248: the count of a fresh split, or of the cached labels
\* of the same radius (labels.max() of the dense labels split_particles saved)
legacy_particle_count(vol, r) ==
    CASE vol = "empty" -> 0
      [] vol = "falling" -> IF r = 1 THEN 201 ELSE IF r = 2 THEN 200 ELSE 100
      [] vol = "edge" -> IF r = 1 THEN 101 ELSE IF r = 2 THEN 100 ELSE 0
      [] vol = "steep" -> IF r = 1 THEN 400 ELSE IF r = 2 THEN 50 ELSE 10

\* <<min_particles, max_particles>>
ParticleBounds == {<<None, None>>, <<None, 150>>, <<40, 60>>, <<100, 101>>}

\* the plateau test with the threshold itself counted as a plateau
legacy_plateau_inclusive(prev_count, n) ==
    /\ prev_count # None
    /\ prev_count > 0
    /\ Abs(n - prev_count) * 100 <= prev_count

\* volume_ops.py:253-255 with plateau_threshold = 0.01:
\* abs(num_particles - prev_count) / prev_count < plateau_threshold
legacy_plateau(prev_count, n) ==
    /\ prev_count # None
    /\ prev_count > 0
    /\ Abs(n - prev_count) * 100 < prev_count

\* volume_ops.py:266-270
within_bounds(bounds, n) ==
    /\ bounds[1] # None
    /\ bounds[2] # None
    /\ bounds[1] <= n
    /\ n <= bounds[2]

\* counts[r] = num_particles on an OrderedDict kept as a sequence of
\* <<radius, count>> items: a new key goes last, a known key keeps its place
set_item(counts, r, n) ==
    IF \E k \in DOMAIN counts : counts[k][1] = r
    THEN [k \in DOMAIN counts |-> IF counts[k][1] = r THEN <<r, n>> ELSE counts[k]]
    ELSE Append(counts, <<r, n>>)

\* min(counts, key=...) and max(counts, key=counts.get): the first key, in
\* insertion order, of the least distance to the middle of the bounds
\* (doubled here, to stay in the integers) or of the greatest count
legacy_fallback(counts, bounds) ==
    LET key(k) == IF bounds[1] # None /\ bounds[2] # None
                  THEN Abs(2 * counts[k][2] - (bounds[1] + bounds[2]))
                  ELSE -counts[k][2]
        first == CHOOSE k \in DOMAIN counts :
                    \A j \in DOMAIN counts :
                        key(k) < key(j) \/ (key(k) = key(j) /\ k <= j)
    IN counts[first][1]

NoLegacyCall == [volume |-> "none"]
NoLegacy == [step |-> "idle"]

\* all lists of radii, in any order and with repetitions
LegacyRadiiLists == UNION {[1..n -> 1..MaxRadius] : n \in 0..MaxRadius}


\* ----------------------------------------------------------- specifications
IdleSelector ==
    /\ results_df = <<>>
    /\ call = [smoothing_window |-> None]
    /\ selection = NotCalled

IdleSplitter ==
    /\ volume = [v \in Voxels |-> FALSE]
    /\ split_call = NoSplit
    /\ labels = NoLabels
    /\ num_particles = 0

IdleContacts ==
    /\ contact_labels = NoLabels
    /\ contact_call = NoContactCall
    /\ contact_result = NoContactResult

IdleMargin ==
    /\ margin_call = NoMarginCall
    /\ margin = None

IdleLoader ==
    /\ load_call = NoLoadCall
    /\ load_result = NoLoadResult

IdleLegacy ==
    /\ legacy_call = NoLegacyCall
    /\ legacy = NoLegacy

IdleSweep ==
    /\ sweep_call = NoSweepCall
    /\ step = "idle"
    /\ frame = NoFrame
    /\ summary = NoSummary
    /\ disk = {}
    /\ log = <<>>
    /\ is_cancelled = FALSE

InitSelector ==
    /\ \E S \in SUBSET (1..MaxRadius), descending \in BOOLEAN :
          \E m \in [S -> Measures] : results_df = TableOf(S, m, descending)
    /\ call = [smoothing_window |-> None]
    /\ selection = NotCalled
    /\ IdleSplitter
    /\ IdleContacts
    /\ IdleMargin
    /\ IdleSweep
    /\ IdleLoader
    /\ IdleLegacy

SelectRadius ==
    /\ selection.reason = "not_called"
    /\ \E tau_ratio \in TauRatios, contacts_range \in ContactsRanges,
          smoothing_window \in SmoothingWindows :
          /\ call' = [smoothing_window |-> smoothing_window]
          /\ selection' = select_radius_by_constraints(results_df, tau_ratio,
                                                       contacts_range, smoothing_window)
    /\ UNCHANGED results_df
    /\ UNCHANGED splitter_vars
    /\ UNCHANGED contact_vars
    /\ UNCHANGED margin_vars
    /\ UNCHANGED sweep_vars
    /\ UNCHANGED loader_vars
    /\ UNCHANGED legacy_vars

NextSelector == SelectRadius

SpecSelector == InitSelector /\ [][NextSelector]_vars

InitSplitter ==
    /\ \E slices \in [1..ShapeX -> SliceNames] : volume = VolumeOf(slices)
    /\ split_call = NoSplit
    /\ labels = NoLabels
    /\ num_particles = 0
    /\ IdleSelector
    /\ IdleContacts
    /\ IdleMargin
    /\ IdleSweep
    /\ IdleLoader
    /\ IdleLegacy

SplitCore ==
    /\ split_call.impl = "none"
    /\ \E radius \in 1..MaxErosionRadius :
          LET out == core_split_particles(volume, radius)
          IN /\ split_call' = [impl |-> "core", radius |-> radius]
             /\ labels' = out[1]
             /\ num_particles' = out[2]
    /\ UNCHANGED volume
    /\ UNCHANGED selector_vars
    /\ UNCHANGED contact_vars
    /\ UNCHANGED margin_vars
    /\ UNCHANGED sweep_vars
    /\ UNCHANGED loader_vars
    /\ UNCHANGED legacy_vars

SplitVolumeOps ==
    /\ split_call.impl = "none"
    /\ \E radius \in 1..MaxErosionRadius, connectivity \in {6, 26} :
          LET out == volume_ops_split_particles(volume, radius, connectivity)
          IN /\ split_call' = [impl |-> "volume_ops", radius |-> radius]
             /\ labels' = out[1]
             /\ num_particles' = out[2]
    /\ UNCHANGED volume
    /\ UNCHANGED selector_vars
    /\ UNCHANGED contact_vars
    /\ UNCHANGED margin_vars
    /\ UNCHANGED sweep_vars
    /\ UNCHANGED loader_vars
    /\ UNCHANGED legacy_vars

NextSplitter == SplitCore \/ SplitVolumeOps

SpecSplitter == InitSplitter /\ [][NextSplitter]_vars

InitContacts ==
    /\ \E a \in [ContactSites -> 0..MaxLabel] : contact_labels = LabelVolumeOf(a)
    /\ contact_call = NoContactCall
    /\ contact_result = NoContactResult
    /\ IdleSelector
    /\ IdleSplitter
    /\ IdleMargin
    /\ IdleSweep
    /\ IdleLoader
    /\ IdleLegacy

CountContacts ==
    /\ contact_call.fn = "none"
    /\ \E connectivity \in {6, 18, 26} :
          /\ contact_call' = [fn |-> "count_contacts", connectivity |-> connectivity,
                              guard_mask |-> NoMask]
          /\ contact_result' =
                [contacts |-> contact_sets(contact_labels, connectivity),
                 full_contacts |-> count_contacts(contact_labels, connectivity),
                 interior_contacts |-> <<>>, stats |-> NoStats, error |-> "none"]
    /\ UNCHANGED contact_labels
    /\ UNCHANGED selector_vars
    /\ UNCHANGED splitter_vars
    /\ UNCHANGED margin_vars
    /\ UNCHANGED sweep_vars
    /\ UNCHANGED loader_vars
    /\ UNCHANGED legacy_vars

CountContactsWithGuard ==
    /\ contact_call.fn = "none"
    /\ \E connectivity \in {6, 26},
          guard_mask \in {NoMask} \cup
                         {create_guard_volume_mask(Shape, m) : m \in 0..MaxGuardMargin} :
          /\ contact_call' = [fn |-> "count_contacts_with_guard",
                              connectivity |-> connectivity, guard_mask |-> guard_mask]
          /\ contact_result' = count_contacts_with_guard(contact_labels, connectivity,
                                                         guard_mask)
    /\ UNCHANGED contact_labels
    /\ UNCHANGED selector_vars
    /\ UNCHANGED splitter_vars
    /\ UNCHANGED margin_vars
    /\ UNCHANGED sweep_vars
    /\ UNCHANGED loader_vars
    /\ UNCHANGED legacy_vars

NextContacts == CountContacts \/ CountContactsWithGuard

SpecContacts == InitContacts /\ [][NextContacts]_vars

InitMargin ==
    /\ \E Z \in Dimensions, H \in Dimensions, W \in Dimensions,
          max_volume \in LargestVolumes, min_margin \in MinMargins :
          margin_call = [shape |-> <<Z, H, W>>, max_volume |-> max_volume,
                         min_margin |-> min_margin, done |-> FALSE]
    /\ margin = None
    /\ IdleSelector
    /\ IdleSplitter
    /\ IdleContacts
    /\ IdleSweep
    /\ IdleLoader
    /\ IdleLegacy

CalculateGuardMargin ==
    /\ ~margin_call.done
    /\ margin_call' = [margin_call EXCEPT !.done = TRUE]
    /\ margin' = calculate_guard_margin(margin_call.shape, margin_call.max_volume,
                                        margin_call.min_margin)
    /\ UNCHANGED selector_vars
    /\ UNCHANGED splitter_vars
    /\ UNCHANGED contact_vars
    /\ UNCHANGED sweep_vars
    /\ UNCHANGED loader_vars
    /\ UNCHANGED legacy_vars

NextMargin == CalculateGuardMargin

SpecMargin == InitMargin /\ [][NextMargin]_vars

\* ---- optimize_radius_advanced, called directly or by OptimizationWorker.run
ByWorker == sweep_call.progress_callback = "worker"
Running == step \notin {"idle", "done", "failed", "terminated"}
OtherVars == <<selector_vars, splitter_vars, contact_vars, margin_vars, loader_vars,
               legacy_vars>>

InitSweep ==
    /\ \E vol \in SweepVolumes, radii \in RadiiLists,
          progress_callback \in {"none", "caller", "worker"},
          complete_analysis \in BOOLEAN, early_stopping \in BOOLEAN :
          /\ progress_callback = "worker" => (complete_analysis /\ ~early_stopping)
          /\ sweep_call = [volume |-> vol, radii |-> radii,
                           progress_callback |-> progress_callback,
                           complete_analysis |-> complete_analysis,
                           early_stopping |-> early_stopping]
    /\ step = "idle"
    /\ frame = NoFrame
    /\ summary = NoSummary
    /\ disk = {}
    /\ log = <<>>
    /\ is_cancelled = FALSE
    /\ IdleSelector
    /\ IdleSplitter
    /\ IdleContacts
    /\ IdleMargin
    /\ IdleLoader
    /\ IdleLegacy

\* workers.py:69-77 (the worker's first signals), optimizer.py:58-71
Start ==
    /\ step = "idle"
    /\ step' = "loop"
    /\ log' = IF ByWorker
              THEN log \o <<StageChanged("initialization"),
                            Event("progress_percentage", 0),
                            StageChanged("optimization")>>
              ELSE log
    /\ UNCHANGED <<sweep_call, frame, summary, disk, is_cancelled>>
    /\ UNCHANGED OtherVars

\* optimizer.py:73-150: split, metrics and contacts of radii[i]; an exception
\* of the metrics leaves the function, one of the contact engine is caught
ProcessRadius ==
    /\ step = "loop"
    /\ frame.i <= Len(sweep_call.radii)
    /\ LET r == sweep_call.radii[frame.i]
       IN \E fault \in {"none", "metrics", "contacts"} :
             /\ fault = "contacts" =>
                   /\ sweep_call.complete_analysis
                   /\ split_particles_in_memory(sweep_call.volume, r).num_particles > 0
             /\ IF fault = "metrics"
                THEN /\ step' = IF ByWorker THEN "raised" ELSE "failed"
                     /\ log' = log \o <<Event("split", r), Event("metrics_failed", r)>>
                     /\ UNCHANGED frame
                ELSE /\ step' = "append"
                     /\ frame' = [frame EXCEPT !.result =
                            OptimizationResult(sweep_call.volume, r,
                                               sweep_call.complete_analysis,
                                               fault = "contacts")]
                     /\ log' = log \o <<Event("split", r)>> \o
                               (IF fault = "contacts"
                                THEN <<Event("contacts_failed", r)>> ELSE <<>>)
    /\ UNCHANGED <<sweep_call, summary, disk, is_cancelled>>
    /\ UNCHANGED OtherVars

\* optimizer.py:152
AddResult ==
    /\ step = "append"
    /\ summary' = [summary EXCEPT !.results = add_result(@, frame.result)]
    /\ log' = Append(log, Event("add_result", frame.result.radius))
    /\ step' = "callback"
    /\ UNCHANGED <<sweep_call, frame, disk, is_cancelled>>
    /\ UNCHANGED OtherVars

\* optimizer.py:155-159; the worker's callback reads is_cancelled (workers.py:49)
ProgressCallback ==
    /\ step = "callback"
    /\ log' = IF sweep_call.progress_callback = "none" THEN log
              ELSE Append(log, Event("progress_callback", frame.result.radius))
    /\ step' = IF ByWorker /\ ~is_cancelled THEN "emit" ELSE "early_stop"
    /\ UNCHANGED <<sweep_call, frame, summary, disk, is_cancelled>>
    /\ UNCHANGED OtherVars

\* workers.py:51-64
EmitProgress ==
    /\ step = "emit"
    /\ log' = log \o <<Event("progress_updated", frame.result.radius),
                       Event("progress_percentage",
                             progress_pct(sweep_call.radii, frame.result.radius))>>
    /\ step' = "early_stop"
    /\ UNCHANGED <<sweep_call, frame, summary, disk, is_cancelled>>
    /\ UNCHANGED OtherVars

\* optimizer.py:167-174
EarlyStoppingCheck ==
    /\ step = "early_stop"
    /\ IF plateau_reached(sweep_call.early_stopping, frame.prev_count,
                          frame.result.particle_count)
       THEN /\ step' = "select"
            /\ UNCHANGED frame
       ELSE /\ step' = "loop"
            /\ frame' = [i |-> frame.i + 1, prev_count |-> frame.result.particle_count,
                         result |-> NoResult]
    /\ UNCHANGED <<sweep_call, summary, disk, log, is_cancelled>>
    /\ UNCHANGED OtherVars

\* the for loop runs out of radii
LoopExit ==
    /\ step = "loop"
    /\ frame.i > Len(sweep_call.radii)
    /\ step' = "select"
    /\ UNCHANGED <<sweep_call, frame, summary, disk, log, is_cancelled>>
    /\ UNCHANGED OtherVars

\* optimizer.py:176-210: selection (the selector raises only on a summary
\* without results, where the Pareto fallback returns 0) and the sweep table
SelectBest ==
    /\ step = "select"
    /\ LET sel == select_radius_by_constraints(_summary_to_dataframe(summary.results),
                      DefaultTauRatio, DefaultContactsRange, None)
       IN IF sel.reason = "ValueError"
          THEN /\ summary.results = <<>>
               /\ summary' = [summary EXCEPT !.best_radius = NoResultsRadius,
                                 !.optimization_method = "Pareto+distance (fallback)"]
          ELSE summary' = [summary EXCEPT !.best_radius = sel.selected_radius,
                              !.optimization_method = "HardConstraint+PeakCount+ContactsRange"]
    /\ disk' = disk \cup {File("optimization_results.csv", None)}
    /\ step' = "save_labels"
    /\ UNCHANGED <<sweep_call, frame, log, is_cancelled>>
    /\ UNCHANGED OtherVars

\* optimizer.py:212-224: labels of the selected radius, recomputed and saved
SaveLabels ==
    /\ step = "save_labels"
    /\ LET r == sel_r(summary.best_radius, summary.results)
       IN IF r = None
          THEN UNCHANGED <<disk, log>>
          ELSE /\ log' = Append(log, Event("split_selected", r))
               /\ disk' = disk \cup {File("labels_r", r)}
    /\ step' = IF ByWorker THEN "returned" ELSE "done"
    /\ UNCHANGED <<sweep_call, frame, summary, is_cancelled>>
    /\ UNCHANGED OtherVars

\* workers.py:92
CheckCancelled ==
    /\ step = "returned"
    /\ step' = IF ~is_cancelled THEN "finalize" ELSE "done"
    /\ UNCHANGED <<sweep_call, frame, summary, disk, log, is_cancelled>>
    /\ UNCHANGED OtherVars

\* workers.py:93-119, _save_results included
Finalize ==
    /\ step = "finalize"
    /\ log' = log \o <<StageChanged("finalization"), Event("progress_percentage", 95),
                       Event("optimization_complete", summary.best_radius),
                       Event("progress_percentage", 100)>>
    /\ disk' = disk \cup {File("optimization_results.csv", None),
                          File("optimization_summary.txt", None)}
                    \cup (IF File("labels_r", summary.best_radius) \in disk
                          THEN {File("best_labels", summary.best_radius)} ELSE {})
    /\ step' = "done"
    /\ UNCHANGED <<sweep_call, frame, summary, is_cancelled>>
    /\ UNCHANGED OtherVars

\* workers.py:121-126
WorkerError ==
    /\ step = "raised"
    /\ log' = Append(log, Event("error_occurred", 0))
    /\ step' = "done"
    /\ UNCHANGED <<sweep_call, frame, summary, disk, is_cancelled>>
    /\ UNCHANGED OtherVars

\* main_window.py:506-507, workers.py:128-131: the GUI thread sets the flag
\* and asks for the termination of the worker thread
Cancel ==
    /\ ByWorker
    /\ Running
    /\ ~is_cancelled
    /\ is_cancelled' = TRUE
    /\ log' = Append(log, Event("cancel", 0))
    /\ UNCHANGED <<sweep_call, step, frame, summary, disk>>
    /\ UNCHANGED OtherVars

\* QThread.terminate(): the thread is stopped at whatever point it has reached
\* when the request takes effect
Terminate ==
    /\ is_cancelled
    /\ Running
    /\ step' = "terminated"
    /\ UNCHANGED <<sweep_call, frame, summary, disk, log, is_cancelled>>
    /\ UNCHANGED OtherVars

NextSweep ==
    \/ Start
    \/ ProcessRadius
    \/ AddResult
    \/ ProgressCallback
    \/ EmitProgress
    \/ EarlyStoppingCheck
    \/ LoopExit
    \/ SelectBest
    \/ SaveLabels
    \/ CheckCancelled
    \/ Finalize
    \/ WorkerError
    \/ Cancel
    \/ Terminate

SpecSweep == InitSweep /\ [][NextSweep]_vars

\* ---- slice loading: load_and_binarize_3d_volume and stack_masks on a folder
InitLoader ==
    /\ \E files \in Folders, polarity \in Polarities,
          thresholding \in Thresholdings, roi_mode \in RoiModes :
          load_call = [fn |-> "none", files |-> files, polarity |-> polarity,
                       thresholding |-> thresholding, roi_mode |-> roi_mode,
                       invert |-> FALSE, above |-> {}]
    /\ load_result = NoLoadResult
    /\ IdleSelector
    /\ IdleSplitter
    /\ IdleContacts
    /\ IdleMargin
    /\ IdleSweep
    /\ IdleLegacy

\* the voxels the Sauvola surface may leave above it
SauvolaOutcomes ==
    IF load_call.thresholding = "sauvola2d_roi"
          /\ load_volume(load_call.files).error = "none"
    THEN SUBSET Pixels(load_volume(load_call.files).volume)
    ELSE {{}}

LoadAndBinarize ==
    /\ load_call.fn = "none"
    /\ \E above \in SauvolaOutcomes :
          /\ load_call' = [load_call EXCEPT !.fn = "load_and_binarize_3d_volume",
                                            !.above = above]
          /\ load_result' = load_and_binarize_3d_volume(
                                 load_call.files, load_call.polarity,
                                 load_call.thresholding, load_call.roi_mode, above)
    /\ UNCHANGED <<selector_vars, splitter_vars, contact_vars, margin_vars,
                   sweep_vars, legacy_vars>>

StackMasks ==
    /\ load_call.fn = "none"
    /\ \E invert \in BOOLEAN :
          /\ load_call' = [load_call EXCEPT !.fn = "stack_masks",
                                            !.invert = invert]
          /\ load_result' = stack_masks(load_call.files, invert)
    /\ UNCHANGED <<selector_vars, splitter_vars, contact_vars, margin_vars,
                   sweep_vars, legacy_vars>>

NextLoader ==
    \/ LoadAndBinarize
    \/ StackMasks

SpecLoader == InitLoader /\ [][NextLoader]_vars

\* ---- label_volume of volume/core.py and of volume_ops.py on a binary volume
InitLabeler ==
    /\ \E slices \in [1..ShapeX -> SliceNames] : volume = VolumeOf(slices)
    /\ split_call = NoSplit
    /\ labels = NoLabels
    /\ num_particles = 0
    /\ IdleSelector
    /\ IdleContacts
    /\ IdleMargin
    /\ IdleSweep
    /\ IdleLoader
    /\ IdleLegacy

LabelVolumeCore ==
    /\ split_call.impl = "none"
    /\ \E connectivity \in {6, 18, 26} :
          LET out == core_label_volume(volume, connectivity)
          IN /\ split_call' = [impl |-> "core_label_volume", radius |-> 0,
                               connectivity |-> connectivity]
             /\ labels' = out[1]
             /\ num_particles' = out[2]
    /\ UNCHANGED volume
    /\ UNCHANGED <<selector_vars, contact_vars, margin_vars, sweep_vars,
                   loader_vars, legacy_vars>>

LabelVolumeOps ==
    /\ split_call.impl = "none"
    /\ \E connectivity \in {6, 26} :
          LET out == volume_ops_label_volume(volume, connectivity)
          IN /\ split_call' = [impl |-> "volume_ops_label_volume", radius |-> 0,
                               connectivity |-> connectivity]
             /\ labels' = out[1]
             /\ num_particles' = out[2]
    /\ UNCHANGED volume
    /\ UNCHANGED <<selector_vars, contact_vars, margin_vars, sweep_vars,
                   loader_vars, legacy_vars>>

NextLabeler ==
    \/ LabelVolumeCore
    \/ LabelVolumeOps

SpecLabeler == InitLabeler /\ [][NextLabeler]_vars

\* ---- volume_ops.optimize_radius on a fresh output directory
InitLegacy ==
    /\ \E vol \in LegacyVolumes, radii \in LegacyRadiiLists, bounds \in ParticleBounds :
          legacy_call = [volume |-> vol, radii |-> radii, bounds |-> bounds]
    /\ legacy = [step |-> "loop", i |-> 1, counts |-> <<>>, evaluated |-> <<>>,
                 prev_count |-> None, best_radius |-> None, files |-> {}]
    /\ IdleSelector
    /\ IdleSplitter
    /\ IdleContacts
    /\ IdleMargin
    /\ IdleSweep
    /\ IdleLoader

\* volume_ops.py:231-280, one pass of the loop body
EvaluateRadius ==
    /\ legacy.step = "loop"
    /\ legacy.i <= Len(legacy_call.radii)
    /\ LET r == legacy_call.radii[legacy.i]
           count == legacy_particle_count(legacy_call.volume, r)
           stop == \/ legacy_plateau(legacy.prev_count, count)
                   \/ within_bounds(legacy_call.bounds, count)
       IN legacy' = [legacy EXCEPT
                        !.counts = set_item(legacy.counts, r, count),
                        !.evaluated = Append(legacy.evaluated, r),
                        !.files = legacy.files \cup {r},
                        !.best_radius = IF stop THEN r ELSE legacy.best_radius,
                        !.prev_count = IF stop THEN legacy.prev_count ELSE count,
                        !.i = IF stop THEN legacy.i ELSE legacy.i + 1,
                        !.step = IF stop THEN "after_loop" ELSE "loop"]
    /\ UNCHANGED legacy_call
    /\ UNCHANGED <<selector_vars, splitter_vars, contact_vars, margin_vars,
                   sweep_vars, loader_vars>>

\* the for loop running out of radii
LegacyLoopExit ==
    /\ legacy.step = "loop"
    /\ legacy.i > Len(legacy_call.radii)
    /\ legacy' = [legacy EXCEPT !.step = "after_loop"]
    /\ UNCHANGED legacy_call
    /\ UNCHANGED <<selector_vars, splitter_vars, contact_vars, margin_vars,
                   sweep_vars, loader_vars>>

\* volume_ops.py:283-307: the fallback when no criterion was met (min and max
\* of an empty dict raise ValueError), and the return
LegacyReturn ==
    /\ legacy.step = "after_loop"
    /\ legacy' =
          IF legacy.best_radius # None THEN [legacy EXCEPT !.step = "returned"]
          ELSE IF legacy.counts = <<>> THEN [legacy EXCEPT !.step = "ValueError"]
          ELSE [legacy EXCEPT !.step = "returned",
                   !.best_radius = legacy_fallback(legacy.counts, legacy_call.bounds)]
    /\ UNCHANGED legacy_call
    /\ UNCHANGED <<selector_vars, splitter_vars, contact_vars, margin_vars,
                   sweep_vars, loader_vars>>

NextLegacy ==
    \/ EvaluateRadius
    \/ LegacyLoopExit
    \/ LegacyReturn

SpecLegacy == InitLegacy /\ [][NextLegacy]_vars

\* ======================================================= selector properties
\* The quantities of section 4.7, stated on sets of radii (not on positions of
\* the sorted table).

Called == selection.reason \notin {"not_called", "ValueError"}
Tau == selection.thresholds.tau_ratio
CMin == selection.thresholds.contacts_range[1]
CMax == selection.thresholds.contacts_range[2]
Window == call.smoothing_window

SweptRadii == {results_df[i].radius : i \in DOMAIN results_df}
RowOf(r) == CHOOSE row \in Range(results_df) : row.radius = r
RankOf(r) == Cardinality({q \in SweptRadii : q <= r})

\* radii whose values enter the centred moving average at radius r
WindowOf(r) ==
    IF Window = None \/ Window <= 1 THEN {r}
    ELSE {q \in SweptRadii :
            /\ RankOf(q) >= RankOf(r) + ((Window - 1) \div 2) - Window + 1
            /\ RankOf(q) <= RankOf(r) + ((Window - 1) \div 2)}

RECURSIVE SumOver(_, _)
SumOver(S, field) ==
    IF S = {} THEN 0
    ELSE LET q == CHOOSE x \in S : TRUE IN RowOf(q)[field] + SumOver(S \ {q}, field)

RatioOf(r) == RowOf(r).largest_particle_ratio
CountOf(r) == RowOf(r).particle_count
ContactsOf(r) == RowOf(r).mean_contacts

\* smoothed largest_particle_ratio(r) <= tau_ratio
PassesRatio(r) == SumOver(WindowOf(r), "largest_particle_ratio") <= Tau * Cardinality(WindowOf(r))

\* smoothed particle_count(q) <= smoothed particle_count(r)
CountLeq(q, r) ==
    SumOver(WindowOf(q), "particle_count") * Cardinality(WindowOf(r))
        <= SumOver(WindowOf(r), "particle_count") * Cardinality(WindowOf(q))

ContactsOk(r) == CMin <= ContactsOf(r) /\ ContactsOf(r) <= CMax

Passing == {r \in SweptRadii : PassesRatio(r)}
RStar == Min(Passing)
ValidSet == LET r_star == RStar IN {r \in Passing : r >= r_star}
RPeak == LET valid == ValidSet
         IN Min({r \in valid : \A q \in valid : CountLeq(q, r)})
ContactsAfterRStar == LET r_star == RStar
                      IN {r \in SweptRadii : r >= r_star /\ ContactsOk(r)}

\* C1: if no swept radius passes the ratio constraint and no radius has its
\* mean contacts in range, the selector returns the largest swept radius with
\* reason "max_r".
C1_MaxRFallback ==
    (Called /\ SweptRadii # {} /\ Passing = {} /\ \A r \in SweptRadii : ~ContactsOk(r))
        => (selection.selected_radius = Max(SweptRadii) /\ selection.reason = "max_r")

\* C2: if no swept radius passes the ratio constraint, priorities A-C are
\* skipped: the reason is never peak_and_contacts, contacts_only or r_peak.
C2_NoPassSkipsAtoC ==
    (Called /\ Passing = {})
        => selection.reason \notin {"peak_and_contacts", "contacts_only", "r_peak"}

\* C3: for a non-empty table the selected radius is the radius of one of the
\* rows, whatever tau_ratio, contacts_range and smoothing_window are.
C3_SelectedIsSwept ==
    (selection.reason # "not_called" /\ results_df # <<>>)
        => selection.selected_radius \in SweptRadii

C3_Witness ==
    /\ Called /\ Len(results_df) >= 3 /\ Window = 2
    /\ selection.reason = "contacts_only"
    /\ results_df[1].radius > results_df[2].radius

C5_ContactsOnly ==
    (Called /\ Passing # {} /\ ~ContactsOk(RPeak) /\ ContactsAfterRStar # {})
        => (/\ selection.selected_radius = Min(ContactsAfterRStar)
            /\ selection.reason = "contacts_only"
            /\ selection.r_star = RStar)

C5_Witness ==
    /\ Called /\ Passing # {} /\ ~ContactsOk(RPeak) /\ ContactsAfterRStar # {}
    /\ \E r \in SweptRadii : r < RStar /\ ContactsOk(r)
    /\ selection.selected_radius > RStar
    /\ selection.reason = "contacts_only"

MonotoneSweep ==
    /\ Called /\ Window = None /\ Tau = 5 /\ CMin = 5 /\ CMax = 9
    /\ SweptRadii = 1..Len(results_df)
    /\ \A q, r \in SweptRadii : q <= r => RatioOf(r) <= RatioOf(q)
    /\ Passing # {}

\* C7 as stated: on a monotone sweep the selector returns the smallest radius
\* whose ratio is <= 0.05, with reason "peak_and_contacts" when the mean
\* contacts at that radius lie in [5, 9].
C7_Original ==
    MonotoneSweep
        => (/\ selection.selected_radius = RStar
            /\ (ContactsOk(RStar) => selection.reason = "peak_and_contacts"))

\* C7 amended: on a monotone sweep the selector returns the smallest radius
\* whose ratio is <= 0.05, with reason "peak_and_contacts", when the mean
\* contacts at that radius lie in [5, 9] and no larger radius has a strictly
\* greater particle count.
C7_Amended ==
    LET r_star == RStar
    IN (MonotoneSweep /\ ContactsOk(r_star)
          /\ \A r \in SweptRadii : r > r_star => CountLeq(r, r_star))
        => (selection.selected_radius = r_star /\ selection.reason = "peak_and_contacts")

C7_Witness ==
    /\ MonotoneSweep /\ ContactsOk(RStar)
    /\ \A r \in SweptRadii : r > RStar => CountLeq(r, RStar)
    /\ RStar > 1 /\ RStar < Max(SweptRadii)
    /\ selection.selected_radius = RStar

SplitDone == split_call.impl # "none"
SeedVoxels == {v \in Voxels : binary_erosion(volume, ball(split_call.radius))[v]}

\* C9: after the splitter ran, L[i] = 0 exactly when B[i] is false, also for
\* foreground components the erosion removed entirely while another component
\* kept a seed (the seedless case is C10's).
C9_ZeroIffBackground ==
    (SplitDone /\ SeedVoxels # {})
        => \A v \in Voxels : (labels[v] = 0) <=> ~volume[v]

\* C10: when the erosion leaves no seed, the splitter returns B cast to
\* integers and reports one particle if B has a foreground voxel.
C10_SeedlessFallback ==
    (SplitDone /\ SeedVoxels = {})
        => (/\ labels = astype_int32(volume)
            /\ num_particles = IF Foreground(volume) # {} THEN 1 ELSE 0)


ContactsCounted == contact_call.fn = "count_contacts"
GuardReturned == contact_call.fn = "count_contacts_with_guard" /\ contact_result.error = "none"

IdsPresent == {contact_labels[v] : v \in Voxels} \ {0}
VoxelsOf(i) == {v \in Voxels : contact_labels[v] = i}

\* u lies one offset vector of connectivity c (6 or 26) away from v
Neighbours(v, u, c) ==
    LET dz == Abs(u[1] - v[1])
        dy == Abs(u[2] - v[2])
        dx == Abs(u[3] - v[3])
    IN IF c = 6 THEN dz + dy + dx = 1
       ELSE dz <= 1 /\ dy <= 1 /\ dx <= 1 /\ dz + dy + dx >= 1

\* some voxel labelled i and some voxel labelled j differ by an offset of c
Touching(i, j, c) == \E v \in VoxelsOf(i), u \in VoxelsOf(j) : Neighbours(v, u, c)

TouchedBy(i, c) == {j \in IdsPresent \ {i} : Touching(i, j, c)}

\* C12: for connectivity 6 and 26, count_contacts returns for every id i in
\* 1..max(L) the number of distinct other nonzero ids having a voxel one
\* offset away from a voxel of i; background voxels contribute nothing.
C12_ContactCounts ==
    (ContactsCounted /\ contact_call.connectivity \in {6, 26})
        => /\ DOMAIN contact_result.full_contacts = 1..LabelMax(contact_labels)
           /\ \A i \in DOMAIN contact_result.full_contacts :
                 contact_result.full_contacts[i] =
                     Cardinality(TouchedBy(i, contact_call.connectivity))

\* a particle with two distinct neighbours, one of them touching only by a
\* corner, next to background voxels
C12_Witness ==
    /\ ContactsCounted
    /\ contact_call.connectivity = 26
    /\ \E i \in IdsPresent :
          /\ contact_result.full_contacts[i] = 2
          /\ Cardinality(TouchedBy(i, 6)) = 1

\* C13: the contact relation of count_contacts is symmetric: j is in the
\* neighbour set of i exactly if i is in the neighbour set of j.
C13_Symmetric ==
    ContactsCounted
        => \A i \in DOMAIN contact_result.contacts, j \in DOMAIN contact_result.contacts :
              j \in contact_result.contacts[i] <=> i \in contact_result.contacts[j]

\* two particles in contact, in either order of their ids
C13_Witness ==
    /\ ContactsCounted
    /\ \E i \in IdsPresent, j \in IdsPresent :
          /\ i < j
          /\ j \in contact_result.contacts[i]
          /\ i \in contact_result.contacts[j]


\* the interior mask of the call: the one passed in, or the one built from
\* the default guard margin
MaskUsed ==
    IF contact_call.guard_mask = NoMask
    THEN [v \in Voxels |-> \A i \in 1..3 :
             LET m == calculate_guard_margin(Shape, max_particle_volume(contact_labels),
                                             DefaultMinMargin)
             IN v[i] >= m /\ v[i] < Shape[i] - m]
    ELSE contact_call.guard_mask

InteriorIds == {i \in IdsPresent : \A v \in VoxelsOf(i) : MaskUsed[v]}

\* C14: count_contacts_with_guard partitions the particles of L: each id
\* present in L is either interior (all voxels in the interior mask) or
\* excluded, and interior_particles + excluded_particles = total_particles =
\* the number of particles in L.
C14_GuardPartition ==
    GuardReturned
        => LET stats == contact_result.stats
           IN /\ stats.total_particles = Cardinality(IdsPresent)
              /\ stats.interior_particles = Cardinality(InteriorIds)
              /\ stats.excluded_particles = Cardinality(IdsPresent \ InteriorIds)
              /\ stats.interior_particles + stats.excluded_particles = stats.total_particles

\* C15: interior_contacts is full_contacts restricted to the interior ids: its
\* keys are exactly the interior ids, and each count equals the full count,
\* neighbours that are excluded particles included.
C15_InteriorRestriction ==
    GuardReturned
        => /\ DOMAIN contact_result.interior_contacts = InteriorIds
           /\ \A i \in DOMAIN contact_result.interior_contacts :
                 /\ contact_result.interior_contacts[i] = contact_result.full_contacts[i]
                 /\ contact_result.interior_contacts[i] =
                        Cardinality(TouchedBy(i, contact_call.connectivity))

\* an interior particle whose only neighbour is an excluded particle, beside a
\* particle that is partly inside the mask
C15_Witness ==
    /\ GuardReturned
    /\ \E i \in InteriorIds, j \in IdsPresent \ InteriorIds :
          /\ contact_result.interior_contacts[i] = 1
          /\ TouchedBy(i, contact_call.connectivity) = {j}
          /\ j \notin DOMAIN contact_result.interior_contacts
          /\ \E v \in VoxelsOf(j) : MaskUsed[v]


\* ====================================================== guard-margin property
\* C16: the margin returned by calculate_guard_margin never exceeds 6% of any
\* dimension of the volume, floor(0.06 * dim), whatever the shape, min_margin
\* and size of the largest particle.
C16_MarginCap ==
    margin_call.done
        => \A i \in 1..3 : margin <= (margin_call.shape[i] * 6) \div 100


\* ============================================================ sweep properties
IsLoopEvent(e) == e.ev \in {"split", "add_result", "progress_callback"}
IsCallback(e) == e.ev = "progress_callback"

\* the splits, appends and callback invocations of the loop, in order
LoopEvents == SelectSeq(log, IsLoopEvent)
Callbacks == SelectSeq(log, IsCallback)

IterationPattern == <<"split", "add_result", "progress_callback">>

RadiiOf(results) == [k \in DOMAIN results |-> results[k].radius]

\* C17: with a progress callback and a strictly ascending radii list, each
\* processed radius gets exactly one record and one callback invocation; the
\* invocation comes after the append of that record and before the split of
\* the next radius; the invocations are in strictly ascending radius order and
\* summary.results is in the same order.
C17_OneRecordOneCallback ==
    sweep_call.progress_callback # "none"
        => LET F == LoopEvents
           IN /\ \A k \in DOMAIN F :
                    /\ F[k].ev = IterationPattern[((k - 1) % 3) + 1]
                    /\ F[k].arg = sweep_call.radii[((k - 1) \div 3) + 1]
              /\ \A k \in DOMAIN Callbacks, j \in DOMAIN Callbacks :
                    k < j => Callbacks[k].arg < Callbacks[j].arg
              /\ Len(summary.results) \in {Len(Callbacks), Len(Callbacks) + 1}
              /\ \A k \in DOMAIN summary.results :
                    summary.results[k].radius = sweep_call.radii[k]
              /\ \A k \in DOMAIN Callbacks : Callbacks[k].arg = summary.results[k].radius

\* a finished sweep of three radii with a caller's callback
C17_Witness ==
    /\ sweep_call.progress_callback = "caller"
    /\ step = "done"
    /\ Len(summary.results) = 3
    /\ Len(Callbacks) = 3

\* C18: once the cancellation flag is set during a sweep (before the sweep
\* loop has ended and the selected labels are recomputed), the iteration in
\* progress is the last one: no other radius is split or recorded afterwards
\* (one more iteration at most if the flag is set between two iterations) and
\* no completion event is emitted.
C18_CancelStopsSweep ==
    \A k \in DOMAIN log :
        (log[k].ev = "cancel" /\ \A j \in 1..(k - 1) : log[j].ev # "split_selected")
            => LET before == SelectSeq(SubSeq(log, 1, k - 1), IsLoopEvent)
                   in_progress == /\ before # <<>>
                                  /\ before[Len(before)].ev # "progress_callback"
                   later == {log[j].arg :
                                j \in {i \in DOMAIN log :
                                          i > k /\ log[i].ev \in {"split", "add_result"}}}
               IN /\ in_progress => later \subseteq {before[Len(before)].arg}
                  /\ ~in_progress => Cardinality(later) <= 1
                  /\ \A j \in DOMAIN log : j > k => log[j].ev # "optimization_complete"

\* C19: a failure of the contact engine or of the metrics in an iteration
\* aborts the sweep: the failing radius gets no record, no later radius is
\* processed, and the records made before the failure stay in the summary.
C19_FailureAborts ==
    \A k \in DOMAIN log :
        log[k].ev \in {"metrics_failed", "contacts_failed"}
            => /\ \A j \in DOMAIN log :
                     j > k => /\ ~(log[j].ev = "add_result" /\ log[j].arg = log[k].arg)
                              /\ log[j].ev # "split"
               /\ \A j \in DOMAIN log :
                     (j < k /\ log[j].ev = "add_result")
                         => \E i \in DOMAIN summary.results :
                               summary.results[i].radius = log[j].arg

LabelFiles == {f \in disk : f.file \in {"labels_r", "best_labels"}}

\* C20: a label volume is on disk only for the radius summary.best_radius, and
\* none is written while the sweep loop runs.
C20_OnlyBestSaved ==
    /\ step \in {"idle", "loop", "append", "callback", "emit", "early_stop", "select",
                 "raised", "failed"} => LabelFiles = {}
    /\ \A f \in LabelFiles : f.radius = summary.best_radius

\* the labels of the selected radius are saved after a sweep whose last radius
\* is another one
C20_Witness ==
    /\ File("labels_r", summary.best_radius) \in disk
    /\ Len(summary.results) >= 2
    /\ summary.results[Len(summary.results)].radius # summary.best_radius


\* particle count the volume of the call gives at position k of the radii list
CountAt(k) ==
    split_particles_in_memory(sweep_call.volume, sweep_call.radii[k]).num_particles

\* positions (other than the first) whose count is within 1% of the nonzero
\* count of the position before
PlateauPositions ==
    {k \in 2..Len(sweep_call.radii) :
        /\ CountAt(k - 1) > 0
        /\ Abs(CountAt(k) - CountAt(k - 1)) * 100 < CountAt(k - 1)}

LastPosition ==
    IF sweep_call.early_stopping /\ PlateauPositions # {}
    THEN Min(PlateauPositions)
    ELSE Len(sweep_call.radii)

IsSplit(e) == e.ev = "split"
IsMetricsFailure(e) == e.ev = "metrics_failed"

LoopEnded == step \in {"select", "save_labels", "returned", "finalize", "done"}
NoMetricsFailure == SelectSeq(log, IsMetricsFailure) = <<>>

\* C21: with early stopping the sweep ends right after the first radius (not
\* the first of the list) whose particle count is within plateau_threshold of
\* the nonzero count of the radius before: that radius has its record and no
\* later radius is processed; without early stopping a sweep that ends
\* normally has processed every radius of the list.
C21_EarlyStopping ==
    /\ Len(SelectSeq(log, IsSplit)) <= LastPosition
    /\ Len(summary.results) <= LastPosition
    /\ (LoopEnded /\ NoMetricsFailure)
          => /\ Len(summary.results) = LastPosition
             /\ \A k \in 1..LastPosition : summary.results[k].radius = sweep_call.radii[k]

\* a sweep of three radii stopped after the second
C21_Witness ==
    /\ sweep_call.early_stopping
    /\ LoopEnded
    /\ Len(sweep_call.radii) = 3
    /\ Len(summary.results) = 2
    /\ PlateauPositions # {}


IsPercentage(e) == e.ev = "progress_percentage"
Percentages == SelectSeq(log, IsPercentage)

\* C22: in every run of the optimization worker each emitted
\* progress_percentage value lies in 0..100 and no emitted value is smaller
\* than the one emitted before it.
C22_PercentageMonotonic ==
    ByWorker
        => \A k \in DOMAIN Percentages :
              /\ Percentages[k].arg \in 0..100
              /\ k > 1 => Percentages[k - 1].arg <= Percentages[k].arg

\* a completed worker run over two radii: 0, 45, 90, 95, 100
C22_Witness ==
    /\ ByWorker
    /\ step = "done"
    /\ Len(sweep_call.radii) = 2
    /\ Len(Percentages) = 5
    /\ Percentages[3].arg = 90
    /\ Percentages[5].arg = 100


IsStage(e) == e.ev = "stage_changed"
Stages == SelectSeq(log, IsStage)
StageOrder == <<"initialization", "optimization", "finalization">>

PositionsOf(ev) == {k \in DOMAIN log : log[k].ev = ev}

\* C23: in every run of the optimization worker the stage_changed events come
\* in the order initialization, optimization, finalization, each at most
\* once; the completion event comes after the finalization stage and after
\* every per-radius record event; no run has both an error event and a
\* completion event.
C23_StageOrder ==
    ByWorker
        => /\ Len(Stages) <= 3
           /\ \A k \in DOMAIN Stages : Stages[k].stage = StageOrder[k]
           /\ \A c \in PositionsOf("optimization_complete") :
                 /\ \E k \in 1..(c - 1) :
                       log[k].ev = "stage_changed" /\ log[k].stage = "finalization"
                 /\ \A k \in PositionsOf("progress_updated") : k < c
           /\ Cardinality(PositionsOf("optimization_complete")) <= 1
           /\ ~(PositionsOf("error_occurred") # {}
                    /\ PositionsOf("optimization_complete") # {})

\* a completed worker run with two per-radius record events
C23_Witness ==
    /\ ByWorker
    /\ step = "done"
    /\ Len(Stages) = 3
    /\ Cardinality(PositionsOf("progress_updated")) = 2
    /\ PositionsOf("optimization_complete") # {}


\* ========================================================= loader properties
BinarizeReturned ==
    load_call.fn = "load_and_binarize_3d_volume" /\ load_result.status = "returned"

LoadedVolume == load_volume(load_call.files).volume
RoiOfCall ==
    IF roi_active(load_call.roi_mode) THEN refined_roi(LoadedVolume) ELSE {}

\* the voxels counted on each side of t2: those of the ROI when one is active
\* and not empty, else those of the volume
VoxelsAbove == count_above(LoadedVolume, RoiOfCall, load_result.threshold)
VoxelsAtOrBelow == count_below(LoadedVolume, RoiOfCall, load_result.threshold)

\* the same call with the polarity forced
WithPolarity(polarity) ==
    load_and_binarize_3d_volume(load_call.files, polarity, load_call.thresholding,
                                load_call.roi_mode, load_call.above)

IsBadSlice(i) ==
    \/ load_call.files[i] = Unreadable
    \/ load_call.files[i].w # load_call.files[1].w

\* C25: if any slice file of the folder is unreadable or has a shape different
\* from the first slice, loading fails and no volume is returned or saved,
\* for the first slice and for every later one.
C25_BadSliceFatal ==
    (load_call.fn # "none" /\ \E i \in DOMAIN load_call.files : IsBadSlice(i))
        => /\ load_call.fn = "load_and_binarize_3d_volume"
                 => load_result.status = "ValueError"
           /\ load_call.fn = "stack_masks" => load_result.status = "not_saved"


\* ======================================================== labeler properties
Labelled ==
    /\ split_call.impl \in {"core_label_volume", "volume_ops_label_volume"}
    /\ split_call.connectivity \in {6, 26}

\* neighbours that share a face; FullStructure adds edges and corners
FaceOffsets ==
    {d \in FullStructure : Abs(d[1]) + Abs(d[2]) + Abs(d[3]) = 1}

ComponentsOf(S, adjacency) == {Component(S, adjacency, v) : v \in S}

RequestedAdjacency ==
    IF split_call.connectivity = 6 THEN FaceOffsets ELSE FullStructure

\* two voxels that touch at a corner only
CornerPair(S) ==
    /\ Cardinality(S) = 2
    /\ \A u, v \in S : u # v => \A i \in 1..3 : Abs(u[i] - v[i]) = 1

\* C26: label_volume counts the connected components of the requested
\* connectivity: two voxels touching only at a corner are two components with
\* connectivity 6 and one with connectivity 26, and an all-background volume
\* has 0 components.
C26_LabelVolume ==
    Labelled
        => num_particles
              = Cardinality(ComponentsOf(Foreground(volume), RequestedAdjacency))


\* C27: every record of a sweep with complete_analysis and a positive particle
\* count has interior_particle_count + excluded_particle_count =
\* particle_count, also when no particle is interior.
C27_GuardCountsAddUp ==
    sweep_call.complete_analysis
        => \A k \in DOMAIN summary.results :
              summary.results[k].particle_count > 0
                 => summary.results[k].interior_particle_count
                       + summary.results[k].excluded_particle_count
                    = summary.results[k].particle_count


RecordRadii == {summary.results[k].radius : k \in DOMAIN summary.results}
Selected == summary.optimization_method # ""

\* C28: once optimize_radius_advanced has selected, for any radii list (the
\* empty list and a sweep cut short by early stopping included) and either
\* selector path, summary.best_radius is the radius of a record of
\* summary.results and the saved label file is the one of that radius.
C28_BestIsRecord ==
    Selected
        => /\ summary.best_radius \in RecordRadii
           /\ \A f \in LabelFiles : f.radius = summary.best_radius


\* ========================================================= legacy properties
LegacyCountAt(k) == legacy_particle_count(legacy_call.volume, legacy_call.radii[k])

\* the two criteria at position k of the list, with plateau_threshold = 1 %
PlateauAt(k) ==
    /\ k > 1
    /\ LegacyCountAt(k - 1) > 0
    /\ Abs(LegacyCountAt(k) - LegacyCountAt(k - 1)) * 100 < LegacyCountAt(k - 1)
InBoundsAt(k) ==
    /\ legacy_call.bounds[1] # None
    /\ legacy_call.bounds[2] # None
    /\ legacy_call.bounds[1] <= LegacyCountAt(k)
    /\ LegacyCountAt(k) <= legacy_call.bounds[2]
Hits == {k \in DOMAIN legacy_call.radii : PlateauAt(k) \/ InBoundsAt(k)}
StopPosition == IF Hits # {} THEN Min(Hits) ELSE Len(legacy_call.radii)

LegacyKeys == {legacy.counts[k][1] : k \in DOMAIN legacy.counts}
LegacyReturned == legacy_call.volume # "none" /\ legacy.step = "returned"

\* C29: the legacy optimize_radius evaluates the radii in list order, selects
\* the first radius at which the relative change of the particle count is
\* below plateau_threshold or the count lies in [min_particles, max_particles]
\* and stops there; whether a criterion is met or the fallback is taken, the
\* returned best_radius is a key of the returned counts, whose keys are
\* exactly the radii evaluated.
C29_LegacyFirstHit ==
    legacy_call.volume # "none"
        => /\ Len(legacy.evaluated) <= StopPosition
           /\ \A k \in DOMAIN legacy.evaluated :
                 legacy.evaluated[k] = legacy_call.radii[k]
           /\ LegacyKeys = Range(legacy.evaluated)
           /\ \A k \in DOMAIN legacy.counts :
                 legacy.counts[k][2]
                    = legacy_particle_count(legacy_call.volume, legacy.counts[k][1])
           /\ LegacyReturned
                 => /\ Len(legacy.evaluated) = StopPosition
                    /\ legacy.best_radius \in LegacyKeys
                    /\ Hits # {} => legacy.best_radius = legacy_call.radii[StopPosition]

\* a plateau at the second of three radii ends the evaluation there
C29_Witness ==
    /\ LegacyReturned
    /\ Len(legacy_call.radii) = 3
    /\ PlateauAt(2)
    /\ ~InBoundsAt(2)
    /\ Hits = {2}
    /\ Len(legacy.evaluated) = 2
    /\ legacy.best_radius = legacy_call.radii[2]


\* C30: once cancel() has set is_cancelled on a running worker, the worker
\* emits no progress_updated and no optimization_complete signal, however the
\* cancel call interleaves with the worker's checks of the flag.
C30_NoSignalAfterCancel ==
    \A i, j \in DOMAIN log :
        (i < j /\ log[i].ev = "cancel")
            => log[j].ev \notin {"progress_updated", "optimization_complete"}

====
